---- MODULE Spec2Model ----
(***************************************************************************)
(* Model of run.py: the batch runner estimate_diabetes_probability, the    *)
(* response parser inlined in its inner loop, and the __main__ glue that   *)
(* writes the result table.                                                *)
(*                                                                         *)
(* Text is a sequence of one-character tokens.  The marker phrase          *)
(* 'Estimated Probability' is the single token "M"; "5" is a digit, "."    *)
(* the decimal point, " " whitespace, "x" any other character and "\n"     *)
(* the line break.                                                         *)
(***************************************************************************)
EXTENDS Integers, Sequences, FiniteSets, TLC

\* ------------------------------------------------------------------ bounds
MaxLen == 5
MaxDrugs == 3
MaxBatch == 3

\* ------------------------------------------------------------- characters
Marker == "M"
Colon == ":"
Newline == "\n"
Digit == "5"
Point == "."
Space == " "
Other == "x"
Chars == {Marker, Colon, Newline, Digit, Point, Space, Other}

BoundedTexts == UNION {[1..n -> Chars] : n \in 0..MaxLen}

\* ------------------------------------------------------ string primitives
\* str.split(sep): the parts between the separators; always at least one part
RECURSIVE SplitFrom(_, _, _, _)
SplitFrom(s, sep, k, cur) ==
    IF k > Len(s) THEN <<cur>>
    ELSE IF s[k] = sep THEN <<cur>> \o SplitFrom(s, sep, k + 1, <<>>)
    ELSE SplitFrom(s, sep, k + 1, Append(cur, s[k]))

Split(s, sep) == SplitFrom(s, sep, 1, <<>>)

\* "Estimated Probability" in line
ContainsMarker(line) == \E k \in DOMAIN line : line[k] = Marker

\* str.strip(): leading and trailing whitespace removed
RECURSIVE LStrip(_)
LStrip(s) == IF s # <<>> /\ Head(s) = Space THEN LStrip(Tail(s)) ELSE s

RECURSIVE RStrip(_)
RStrip(s) ==
    IF s # <<>> /\ s[Len(s)] = Space THEN RStrip(SubSeq(s, 1, Len(s) - 1)) ELSE s

Strip(s) == RStrip(LStrip(s))

\* ------------------------------------------------------------------ float
IsDigits(s) == \A k \in DOMAIN s : s[k] = Digit

RECURSIVE DigitsValue(_)
DigitsValue(s) ==
    IF s = <<>> THEN 0 ELSE 10 * DigitsValue(SubSeq(s, 1, Len(s) - 1)) + 5

None == [kind |-> "None", num |-> 0, scale |-> 0]

\* the float num / 10^scale
Float(n, sc) == [kind |-> "float", num |-> n, scale |-> sc]

\* float(s) accepts digits, digits with one decimal point before, inside or
\* after them, and surrounding whitespace; anything else is a ValueError
FloatAccepts(s) ==
    LET t == Strip(s)
        parts == Split(t, Point)
    IN  /\ Len(parts) \in {1, 2}
        /\ \A p \in DOMAIN parts : IsDigits(parts[p])
        /\ \E p \in DOMAIN parts : parts[p] # <<>>

FloatValue(s) ==
    LET t == Strip(s)
        parts == Split(t, Point)
        frac == IF Len(parts) = 2 THEN parts[2] ELSE <<>>
    IN  Float(DigitsValue(parts[1] \o frac), Len(frac))

\* ----------------------------------------------------------------- parser
\* a handler that forgets the IndexError of a line without a colon
CaughtOnlyValueError == {"ValueError"}

\* except (IndexError, ValueError)
CaughtExceptions == {"IndexError", "ValueError"}

\* a parser that splits at the first colon only: split(":", 1)[1]
RECURSIVE JoinWithColon(_)
JoinWithColon(parts) ==
    IF Len(parts) = 1 THEN parts[1]
    ELSE parts[1] \o <<Colon>> \o JoinWithColon(Tail(parts))

ColonFieldMaxsplit(line) == JoinWithColon(Tail(Split(line, Colon)))

\* probability_line[0].split(":")[1]
ColonField(line) == Split(line, Colon)[2]

\* float(probability_line[0].split(":")[1].strip()): the value, or the
\* exception the expression raises
TryFloat(line) ==
    IF Len(Split(line, Colon)) < 2
    THEN [raised |-> "IndexError", value |-> None]
    ELSE IF ~FloatAccepts(Strip(ColonField(line)))
    THEN [raised |-> "ValueError", value |-> None]
    ELSE [raised |-> "none", value |-> FloatValue(Strip(ColonField(line)))]

RECURSIVE Reverse(_)
Reverse(s) == IF s = <<>> THEN <<>> ELSE Append(Reverse(Tail(s)), Head(s))

\* a parser that ends up reading the last marker line
ProbabilityLinesLastFirst(response_text) ==
    Reverse(SelectSeq(Split(response_text, Newline), ContainsMarker))

\* the lines of the response that contain the marker, in order
ProbabilityLines(response_text) ==
    SelectSeq(Split(response_text, Newline), ContainsMarker)

\* lines 71-84: the probability of one response, or the exception that
\* escapes the try statement
ParseResponse(response_text) ==
    LET probability_line == ProbabilityLines(response_text)
    IN  IF probability_line # <<>>
        THEN LET r == TryFloat(probability_line[1])
             IN  IF r.raised \in CaughtExceptions
                 THEN [raised |-> "none", value |-> None]
                 ELSE r
        ELSE [raised |-> "none", value |-> None]

\* ---------------------------------------------------------- conversations
Drugs == {"metformin", "insulin"}

UserTemplate(cot) == IF cot THEN "think-aloud" ELSE "plain"

\* create_conversation: the system message, then the user message with the
\* drug name interpolated into the template the cot flag selects
create_conversation(drug, cot) ==
    << [role |-> "system", content |-> <<"SYSTEM_PROMPT">>],
       [role |-> "user", content |-> <<UserTemplate(cot), drug>>] >>

\* ------------------------------------------------------- generation service
\* Texts the service answers with: prose without the marker, a marker line
\* without a colon, a non-numeric answer, a well-formed answer, and an
\* answer followed by a second colon.
ServiceTexts ==
    { <<Other>>,
      <<Marker>>,
      <<Marker, Colon, Other>>,
      <<Marker, Colon, Digit>>,
      <<Marker, Colon, Digit, Colon, Other>> }

\* Texts a sampled answer is drawn from when what the text says does not matter
SampledTexts == { <<Other>>, <<Marker, Colon, Digit>> }

\* one RequestOutput: the request it was generated for and outputs[0].text
Output(id, t) == [request_id |-> id, text |-> t]

\* --------------------------------------------------------------- variables
VARIABLES
    sample, sample_result,      \* one response and its parse (SpecParse)
    drugs, cot, batch_size,     \* the arguments of estimate_diabetes_probability
    pc,                         \* where the script is
    i,                          \* the loop variable of line 56
    in_flight,                  \* llm.chat calls that have not returned
    outputs,                    \* outputs of the current chunk not yet iterated
    estimated_probabilities, response_texts,
    error,                      \* the uncaught exception, if any
    file,                       \* the parquet file written by line 126
    calls,                      \* log: the conversations of every llm.chat call
    replies,                    \* log: the request ids each returned call answered
    processed,                  \* log: the outputs the inner loop has iterated
    stub, run, previous         \* SpecStub: the fixed service, the run number
                                \* and the table of the run before

pvars == <<sample, sample_result>>
args == <<drugs, cot, batch_size>>
results == <<estimated_probabilities, response_texts>>
logs == <<calls, replies, processed>>
rerun == <<stub, run, previous>>
vars == <<pvars, args, pc, i, in_flight, outputs, results, error, file, logs, rerun>>

Unparsed == [raised |-> "pending", value |-> None]
NoError == [type |-> "none", at |-> "none"]
NoFile == [path |-> "none", prob |-> <<>>, response |-> <<>>]
NoStub == [c \in {} |-> <<>>]
MinBatch == 0 - 1

DrugLists == UNION {[1..n -> Drugs] : n \in 0..MaxDrugs}

\* ------------------------------------------------------------------ helpers
\* a loop that drops a trailing partial chunk
InRangeFullChunks(k, stop, step) == step > 0 /\ k + step <= stop

\* range(0, stop, step) still yields the value k
InRange(k, stop, step) == IF step > 0 THEN k < stop ELSE k > stop

\* drugs[lo:hi] taken one element too far
SliceInclusive(s, lo, hi) ==
    LET top == IF hi + 1 < Len(s) THEN hi + 1 ELSE Len(s)
    IN  IF lo >= top THEN <<>> ELSE SubSeq(s, lo + 1, top)

\* s[lo:hi] for 0 <= lo <= hi
Slice(s, lo, hi) ==
    LET top == IF hi < Len(s) THEN hi ELSE Len(s)
    IN  IF lo >= top THEN <<>> ELSE SubSeq(s, lo + 1, top)

RECURSIVE Flatten(_)
Flatten(ss) == IF ss = <<>> THEN <<>> ELSE Head(ss) \o Flatten(Tail(ss))

\* the request ids the service gives the conversations of the newest call
RequestIds(log) ==
    LET base == Len(Flatten(SubSeq(log, 1, Len(log) - 1)))
    IN  [k \in 1..Len(log[Len(log)]) |-> base + k]

\* lists a second call would inherit from the first
InitialListShared(old) == old

\* lines 53-54: both result lists start empty on every call
InitialList(old) == <<>>

SavePath(c) ==
    IF ~c THEN "drug_t2d_15980_probas.parquet" ELSE "drug_t2d_15980_probas_cot.parquet"

\* ------------------------------------------------------------------ actions
\* lines 119, 53-56: the call, the empty lists, range(0, len(drugs), batch_size)
Enter ==
    /\ pc = "main"
    /\ estimated_probabilities' = InitialList(estimated_probabilities)
    /\ response_texts' = InitialList(response_texts)
    /\ i' = 0
    /\ calls' = <<>> /\ replies' = <<>> /\ processed' = <<>>
    /\ IF batch_size = 0
       THEN pc' = "crashed" /\ error' = [type |-> "ValueError", at |-> "range"]
       ELSE pc' = "loop" /\ UNCHANGED error
    /\ UNCHANGED <<pvars, args, in_flight, outputs, file, rerun>>

\* a runner that submits the next chunk while outputs are still unparsed
NextChunkPrefetch ==
    /\ pc \in {"loop", "parse"}
    /\ LET at == IF pc = "parse" THEN i + batch_size ELSE i
           conversations ==
               [k \in DOMAIN Slice(drugs, at, at + batch_size) |->
                   create_conversation(Slice(drugs, at, at + batch_size)[k], cot)]
       IN  /\ InRange(at, Len(drugs), batch_size)
           /\ i' = at
           /\ in_flight' = Append(in_flight, conversations)
           /\ calls' = Append(calls, conversations)
    /\ pc' = "call"
    /\ UNCHANGED <<pvars, args, outputs, results, error, file, replies, processed, rerun>>

\* lines 56-64: the next chunk, its conversations, the llm.chat call
NextChunk ==
    /\ pc = "loop"
    /\ InRange(i, Len(drugs), batch_size)
    /\ LET batch_drugs == Slice(drugs, i, i + batch_size)
           conversations ==
               [k \in DOMAIN batch_drugs |-> create_conversation(batch_drugs[k], cot)]
       IN  /\ in_flight' = Append(in_flight, conversations)
           /\ calls' = Append(calls, conversations)
    /\ pc' = "call"
    /\ UNCHANGED <<pvars, args, i, outputs, results, error, file, replies, processed, rerun>>

\* llm.chat returns one output per conversation, in submission order
ChatReturn ==
    /\ pc = "call"
    /\ \E texts \in [DOMAIN Head(in_flight) -> SampledTexts] :
          outputs' = [k \in DOMAIN Head(in_flight) |->
                         Output(RequestIds(calls)[k], texts[k])]
    /\ replies' = Append(replies, RequestIds(calls))
    /\ in_flight' = Tail(in_flight)
    /\ pc' = "parse"
    /\ UNCHANGED <<pvars, args, i, results, error, file, calls, processed, rerun>>

\* llm.chat returns the fixed text of each conversation
ChatReturnStub ==
    /\ pc = "call"
    /\ outputs' = [k \in DOMAIN Head(in_flight) |->
                      Output(RequestIds(calls)[k], stub[Head(in_flight)[k]])]
    /\ replies' = Append(replies, RequestIds(calls))
    /\ in_flight' = Tail(in_flight)
    /\ pc' = "parse"
    /\ UNCHANGED <<pvars, args, i, results, error, file, calls, processed, rerun>>

\* llm.chat breaks its contract: the last output is missing
ChatReturnShort ==
    /\ pc = "call"
    /\ LET ids == RequestIds(calls)
           kept == SubSeq(ids, 1, Len(ids) - 1)
       IN  /\ \E texts \in [DOMAIN kept -> SampledTexts] :
                 outputs' = [k \in DOMAIN kept |-> Output(kept[k], texts[k])]
           /\ replies' = Append(replies, kept)
    /\ in_flight' = Tail(in_flight)
    /\ pc' = "parse"
    /\ UNCHANGED <<pvars, args, i, results, error, file, calls, processed, rerun>>

\* llm.chat breaks its contract: the last request is answered twice
ChatReturnLong ==
    /\ pc = "call"
    /\ LET ids == RequestIds(calls)
           more == Append(ids, ids[Len(ids)])
       IN  /\ \E texts \in [DOMAIN more -> SampledTexts] :
                 outputs' = [k \in DOMAIN more |-> Output(more[k], texts[k])]
           /\ replies' = Append(replies, more)
    /\ in_flight' = Tail(in_flight)
    /\ pc' = "parse"
    /\ UNCHANGED <<pvars, args, i, results, error, file, calls, processed, rerun>>

\* a runner that catches the failure of a chunk and goes on with the next
ChatRaiseSwallowed ==
    /\ pc = "call"
    /\ error' = [type |-> "ServiceError", at |-> "llm.chat"]
    /\ in_flight' = Tail(in_flight)
    /\ outputs' = <<>>
    /\ pc' = "parse"
    /\ UNCHANGED <<pvars, args, i, results, file, logs, rerun>>

\* llm.chat raises: nothing in lines 56-64 or 119-126 catches it
ChatRaise ==
    /\ pc = "call"
    /\ error' = [type |-> "ServiceError", at |-> "llm.chat"]
    /\ in_flight' = Tail(in_flight)
    /\ pc' = "crashed"
    /\ UNCHANGED <<pvars, args, i, outputs, results, file, logs, rerun>>

\* a loop body that records a probability only when one was parsed
ParseOutputSkipNone ==
    /\ pc = "parse"
    /\ outputs # <<>>
    /\ LET response_text == Head(outputs).text
           parsed == ParseResponse(response_text)
       IN  /\ response_texts' = Append(response_texts, response_text)
           /\ estimated_probabilities' =
                  IF parsed.value = None THEN estimated_probabilities
                  ELSE Append(estimated_probabilities, parsed.value)
    /\ processed' = Append(processed, Head(outputs))
    /\ outputs' = Tail(outputs)
    /\ UNCHANGED <<pvars, args, pc, i, in_flight, error, file, calls, replies, rerun>>

\* lines 67-86: one iteration of the inner loop
ParseOutput ==
    /\ pc = "parse"
    /\ outputs # <<>>
    /\ LET response_text == Head(outputs).text
           parsed == ParseResponse(response_text)
       IN  /\ response_texts' = Append(response_texts, response_text)
           /\ IF parsed.raised = "none"
              THEN /\ estimated_probabilities' =
                          Append(estimated_probabilities, parsed.value)
                   /\ UNCHANGED <<pc, error>>
              ELSE /\ pc' = "crashed"
                   /\ error' = [type |-> parsed.raised, at |-> "float"]
                   /\ UNCHANGED estimated_probabilities
    /\ processed' = Append(processed, Head(outputs))
    /\ outputs' = Tail(outputs)
    /\ UNCHANGED <<pvars, args, i, in_flight, file, calls, replies, rerun>>

\* line 56: the inner loop is exhausted, range() yields the next start
EndChunk ==
    /\ pc = "parse"
    /\ outputs = <<>>
    /\ i' = i + batch_size
    /\ pc' = "loop"
    /\ UNCHANGED <<pvars, args, in_flight, outputs, results, error, file, logs, rerun>>

\* line 88: range() is exhausted
Return ==
    /\ pc = "loop"
    /\ ~InRange(i, Len(drugs), batch_size)
    /\ pc' = "returned"
    /\ UNCHANGED <<pvars, args, i, in_flight, outputs, results, error, file, logs, rerun>>

\* lines 121-126: the DataFrame of the two lists, written to the save path
WriteFile ==
    /\ pc = "returned"
    /\ IF Len(estimated_probabilities) = Len(response_texts)
       THEN /\ file' = [path |-> SavePath(cot), prob |-> estimated_probabilities,
                        response |-> response_texts]
            /\ pc' = "written"
            /\ UNCHANGED error
       ELSE /\ pc' = "crashed"
            /\ error' = [type |-> "ValueError", at |-> "DataFrame"]
            /\ UNCHANGED file
    /\ UNCHANGED <<pvars, args, i, in_flight, outputs, results, logs, rerun>>

\* the script is started again on the same input
Restart ==
    /\ pc = "written"
    /\ run = 1
    /\ run' = 2
    /\ previous' = file
    /\ file' = NoFile
    /\ pc' = "main"
    /\ UNCHANGED <<pvars, args, i, in_flight, outputs, results, error, logs, stub>>

\* the response parser applied to one response
ParseSample ==
    /\ sample_result = Unparsed
    /\ sample_result' = ParseResponse(sample)
    /\ UNCHANGED <<sample, args, pc, i, in_flight, outputs, results, error, file, logs, rerun>>

\* ----------------------------------------------------------- specifications
Idle ==
    /\ pc = "main" /\ i = 0
    /\ in_flight = <<>> /\ outputs = <<>>
    /\ estimated_probabilities = <<>> /\ response_texts = <<>>
    /\ error = NoError /\ file = NoFile
    /\ calls = <<>> /\ replies = <<>> /\ processed = <<>>
    /\ run = 1 /\ previous = NoFile

\* one run of the script against a service that may answer anything, answer
\* with the wrong number of outputs, or raise
Init ==
    /\ sample = <<>> /\ sample_result = Unparsed
    /\ drugs \in DrugLists
    /\ cot \in BOOLEAN
    /\ batch_size \in MinBatch..MaxBatch
    /\ stub = NoStub
    /\ Idle

Next ==
    \/ Enter
    \/ NextChunk
    \/ ChatReturn
    \/ ChatReturnShort
    \/ ChatReturnLong
    \/ ChatRaise
    \/ ParseOutput
    \/ EndChunk
    \/ Return
    \/ WriteFile

Spec == Init /\ [][Next]_vars

\* two runs of the script against a stub service with fixed text per conversation
InitStub ==
    /\ sample = <<>> /\ sample_result = Unparsed
    /\ drugs \in DrugLists
    /\ cot \in BOOLEAN
    /\ batch_size \in MinBatch..MaxBatch
    /\ stub \in [{create_conversation(d, cot) : d \in Drugs} -> ServiceTexts]
    /\ Idle

NextStub ==
    \/ Enter
    \/ NextChunk
    \/ ChatReturnStub
    \/ ParseOutput
    \/ EndChunk
    \/ Return
    \/ WriteFile
    \/ Restart

SpecStub == InitStub /\ [][NextStub]_vars

\* the parser applied to every bounded response text
InitParse ==
    /\ sample \in BoundedTexts
    /\ sample_result = Unparsed
    /\ drugs = <<>> /\ cot = FALSE /\ batch_size = 1
    /\ stub = NoStub
    /\ Idle

NextParse == ParseSample

SpecParse == InitParse /\ [][NextParse]_vars

\* ------------------------------------------------- parser: positional view
\* The claims about the parser are stated over character positions of the
\* response, independently of Split and SelectSeq.
Positions(text, c) == {k \in DOMAIN text : text[k] = c}

Min(S) == CHOOSE m \in S : \A o \in S : m <= o

Max(S) == CHOOSE m \in S : \A o \in S : m >= o

\* first and last position of the line that holds position k
LineStart(text, k) ==
    LET before == {p \in Positions(text, Newline) : p < k}
    IN  IF before = {} THEN 1 ELSE Max(before) + 1

LineEnd(text, k) ==
    LET after == {p \in Positions(text, Newline) : p > k}
    IN  IF after = {} THEN Len(text) ELSE Min(after) - 1

\* a numeral: digits with at most one decimal point and at least one digit
IsNumeral(s) ==
    /\ s # <<>>
    /\ \A k \in DOMAIN s : s[k] \in {Digit, Point}
    /\ Cardinality(Positions(s, Point)) <= 1
    /\ Positions(s, Digit) # {}

NumeralValue(s) ==
    LET pt == Positions(s, Point)
    IN  Float(DigitsValue(SelectSeq(s, LAMBDA ch : ch = Digit)),
              IF pt = {} THEN 0 ELSE Len(s) - Min(pt))

\* SubSeq(text, a, b) is a whole line of the form
\* 'Estimated Probability:', optional blanks, a numeral starting at n
IsWellFormedLine(text, a, n, b) ==
    /\ a + 1 < n /\ n <= b
    /\ LineStart(text, a) = a /\ LineEnd(text, a) = b
    /\ text[a] = Marker /\ text[a + 1] = Colon
    /\ \A k \in (a + 2)..(n - 1) : text[k] = Space
    /\ IsNumeral(SubSeq(text, n, b))

WellFormedLines(text) ==
    {w \in (DOMAIN text) \X (DOMAIN text) \X (DOMAIN text) :
        IsWellFormedLine(text, w[1], w[2], w[3])}

Parsed == sample_result # Unparsed

\* C2 as stated: whenever the response contains a well-formed line
\* 'Estimated Probability: <number>', the parsed probability is the float
\* value of <number>, whatever lines come before or after it.
C2_AnyWellFormedLine ==
    Parsed =>
        \A w \in WellFormedLines(sample) :
            /\ sample_result.raised = "none"
            /\ sample_result.value = NumeralValue(SubSeq(sample, w[2], w[3]))

\* C2 amended: the parsed probability is the float value of <number> of a
\* well-formed line provided no earlier line of the response contains the
\* marker; lines without the marker before it and any lines after it do not
\* change the result.
C2_FirstMarkerLineWellFormed ==
    Parsed =>
        \A w \in WellFormedLines(sample) :
            (\A p \in Positions(sample, Marker) : p >= w[1]) =>
                /\ sample_result.raised = "none"
                /\ sample_result.value = NumeralValue(SubSeq(sample, w[2], w[3]))

\* a well-formed line that follows a line of prose has been parsed
C2_Witness ==
    /\ Parsed
    /\ \E w \in WellFormedLines(sample) :
          /\ w[1] > 2
          /\ \A p \in Positions(sample, Marker) : p >= w[1]
          /\ sample_result.value.kind = "float"

\* the first line that holds the marker, and what follows its first colon
HasMarker(text) == Positions(text, Marker) # {}

FirstMarkerLine(text) ==
    LET m == Min(Positions(text, Marker))
    IN  SubSeq(text, LineStart(text, m), LineEnd(text, m))

AfterFirstColon(line) == SubSeq(line, Min(Positions(line, Colon)) + 1, Len(line))

UpToColon(s) ==
    IF Positions(s, Colon) = {} THEN s ELSE SubSeq(s, 1, Min(Positions(s, Colon)) - 1)

\* the reference parser of the claim: everything after the first colon
ReferenceWholeRemainder(text) ==
    IF ~HasMarker(text) \/ Positions(FirstMarkerLine(text), Colon) = {} THEN None
    ELSE LET rest == Strip(AfterFirstColon(FirstMarkerLine(text)))
         IN  IF IsNumeral(rest) THEN NumeralValue(rest) ELSE None

\* the reference parser of the amended claim: the text between the first
\* colon and the second one (the whole remainder when there is no second)
ReferenceFirstField(text) ==
    IF ~HasMarker(text) \/ Positions(FirstMarkerLine(text), Colon) = {} THEN None
    ELSE LET field == Strip(UpToColon(AfterFirstColon(FirstMarkerLine(text))))
         IN  IF IsNumeral(field) THEN NumeralValue(field) ELSE None

Exited == pc \in {"returned", "written"}

ReturnedCount == Len(Flatten(replies))

\* the request ids of call c when every earlier conversation got one id
ExpectedIds(c) ==
    LET base == Len(Flatten(SubSeq(calls, 1, c - 1)))
    IN  [k \in 1..Len(calls[c]) |-> base + k]

\* so far the service returned one output per conversation, in order
Faithful == \A c \in DOMAIN replies : replies[c] = ExpectedIds(c)

AllConversations == [k \in DOMAIN drugs |-> create_conversation(drugs[k], cot)]

CeilDiv(n, d) == (n + d - 1) \div d

\* C1: for batch_size >= 1 and a service that returns one output per
\* conversation in submission order, the runner returns len(drugs)
\* probabilities and len(drugs) responses, and row k holds the text, and the
\* probability parsed from the text, of the output generated for drugs[k].
C1_OrderPreserved ==
    (Exited /\ batch_size >= 1 /\ Faithful) =>
        /\ Len(estimated_probabilities) = Len(drugs)
        /\ Len(response_texts) = Len(drugs)
        /\ Len(processed) = Len(drugs)
        /\ Flatten(calls) = AllConversations
        /\ \A k \in DOMAIN drugs :
              /\ processed[k].request_id = k
              /\ response_texts[k] = processed[k].text
              /\ estimated_probabilities[k] = ParseResponse(processed[k].text).value

\* three drugs in chunks of two have been answered faithfully and saved
C1_Witness ==
    /\ pc = "written" /\ Faithful
    /\ Len(drugs) = 3 /\ batch_size = 2 /\ Len(calls) = 2
    /\ drugs[1] # drugs[2]
    /\ file.response[1] # file.response[3]

\* C5: a call with batch_size < 1 never returns a result normally.
C5_NonPositiveBatchRejected == batch_size < 1 => ~Exited

\* C6: once llm.chat has raised, the run is dead: the failing call was the
\* last one submitted, nothing is in flight, the function has not returned,
\* no step is possible and the output file does not exist.
C6_ServiceFailureFatal ==
    error.at = "llm.chat" =>
        /\ pc = "crashed"
        /\ file = NoFile
        /\ in_flight = <<>>
        /\ Len(calls) = Len(replies) + 1
        /\ ~ENABLED Next

\* the service failed after a chunk had been parsed; its rows are not saved
C6_Witness ==
    /\ error.at = "llm.chat"
    /\ Len(estimated_probabilities) >= 1
    /\ Len(calls) >= 2
    /\ file = NoFile

\* C7: at most one llm.chat call is outstanding, and while one is, every
\* output of every earlier chunk has been parsed and appended to both lists.
C7_Sequential ==
    /\ Len(in_flight) <= 1
    /\ in_flight # <<>> =>
          /\ pc = "call"
          /\ outputs = <<>>
          /\ Len(replies) = Len(calls) - 1
          /\ Len(response_texts) = ReturnedCount
          /\ Len(estimated_probabilities) = ReturnedCount

\* the second chunk is in flight after the first has been parsed
C7_Witness ==
    /\ in_flight # <<>>
    /\ Len(calls) >= 2
    /\ Len(estimated_probabilities) >= 2

\* chunks the loop has still to start when its variable is k
ChunksLeft(k) ==
    IF batch_size >= 1 /\ k < Len(drugs) THEN CeilDiv(Len(drugs) - k, batch_size) ELSE 0

\* steps the script can still take: per chunk the call, its return, one
\* iteration per output (the service returns at most batch_size + 1) and the end of
\* the inner loop; then the return and the write
Rank ==
    LET w == batch_size + 4
    IN  CASE pc = "main" -> 3 + w * ChunksLeft(0)
          [] pc = "loop" -> 2 + w * ChunksLeft(i)
          [] pc = "call" -> 1 + w * ChunksLeft(i)
          [] pc = "parse" -> 3 + Len(outputs) + w * (ChunksLeft(i) - 1)
          [] pc = "returned" -> 1
          [] OTHER -> 0

PlanHolds ==
    batch_size >= 1 =>
        /\ Rank >= 0
        /\ Len(calls) <= CeilDiv(Len(drugs), batch_size)
        /\ Exited =>
              /\ Len(calls) = CeilDiv(Len(drugs), batch_size)
              /\ Flatten(calls) = AllConversations
              /\ \A c \in DOMAIN calls :
                    /\ Len(calls[c]) \in 1..batch_size
                    /\ c < Len(calls) => Len(calls[c]) = batch_size

\* C9: for batch_size >= 1 every step of the runner lowers a non-negative
\* rank, so it terminates; it never issues more than ceil(n / batch_size)
\* calls and has issued exactly that many when it returns; the chunks,
\* concatenated, are the conversations of the whole list in input order,
\* every chunk but the last has batch_size conversations and the last has
\* between 1 and batch_size.
C9_ChunkPlan ==
    /\ []PlanHolds
    /\ [][batch_size >= 1 => Rank' < Rank]_vars

\* three drugs went out as a chunk of two and a chunk of one
C9_Witness ==
    /\ Exited
    /\ batch_size = 2
    /\ Len(calls) = 2
    /\ Len(calls[1]) = 2 /\ Len(calls[2]) = 1

\* C10: both lists hold one entry per output iterated so far, which at the
\* end of the run is every output the service returned, and a wrong number
\* of outputs raises nothing: the only errors are those of range() and of
\* llm.chat itself.
C10_Lockstep ==
    /\ Len(estimated_probabilities) = Len(response_texts)
    /\ Len(response_texts) = ReturnedCount - Len(outputs)
    /\ Exited => Len(response_texts) = ReturnedCount
    /\ error.at \in {"none", "range", "llm.chat"}

\* a miscounting service led to a saved table of the wrong length whose
\* rows no longer line up with the requests
C10_Witness ==
    /\ pc = "written" /\ error = NoError
    /\ batch_size >= 1
    /\ ~Faithful
    /\ Len(file.prob) # Len(drugs)
    /\ \E k \in DOMAIN processed : processed[k].request_id # k

\* --------------------------------------------------- runner: stub service
\* the cases in which the claim promises null, with the text after the colon
\* read as everything after the first colon
FailsWholeRemainder(text) ==
    \/ ~HasMarker(text)
    \/ Positions(FirstMarkerLine(text), Colon) = {}
    \/ ~IsNumeral(Strip(AfterFirstColon(FirstMarkerLine(text))))

\* the same with the text after the colon read as what ends at the next colon
FailsFirstField(text) ==
    \/ ~HasMarker(text)
    \/ Positions(FirstMarkerLine(text), Colon) = {}
    \/ ~IsNumeral(Strip(UpToColon(AfterFirstColon(FirstMarkerLine(text)))))

C8_RerunIdentical ==
    (run = 2 /\ Exited) =>
        /\ estimated_probabilities = previous.prob
        /\ response_texts = previous.response
        /\ pc = "written" => file = previous

\* the second run has written a table of two different rows
C8_Witness ==
    /\ run = 2 /\ pc = "written"
    /\ Len(file.prob) >= 2
    /\ file.prob[1] # file.prob[2]
    /\ Len(calls) >= 2

====
